---- MODULE Spec2Model ----
(***************************************************************************)
(* Model of the Gemara policy resolver (tools/gemara-resolve-example.py)   *)
(* and of the control-file validator (tools/validate-control-files.py).    *)
(*                                                                         *)
(* Representation.  A Python str is a sequence of tokens (each token a     *)
(* fixed piece of text, "." and "/" always tokens of their own), so that   *)
(* split, concatenation, f-strings and regular expressions are computed    *)
(* and not assumed.  A Python dict is a function whose DOMAIN is the set   *)
(* of keys present; d.get(k, default) and "k in d" read that DOMAIN.       *)
(* A Python list is a sequence.                                            *)
(***************************************************************************)
EXTENDS Naturals, Sequences, FiniteSets, TLC

VARIABLES
    pc,                     \* position of the resolve run: "start" | "done"
    policy,                 \* the policy handed to resolve_assessment_requirements
    resolved_requirements,  \* what resolve_assessment_requirements returned
    apc,                    \* position of the _apply_modifications call
    base_control,           \* arguments of _apply_modifications ...
    control_mod,
    assessment_mods,
    resolved,               \* ... the resolved control it returned ...
    records,                \* ... and the records made of its requirements
    upc,                    \* position of the URL construction
    url_ids,                \* the (policy, control, requirement) ids of a URL ...
    gemara_url,             \* ... and the canonical URL built from them
    fpc,                    \* position of the validate_control_file call
    control_file,           \* its arguments: a file of the controls directory ...
    expected_url,           \* ... and the URL it is validated against
    result,                 \* (is_valid, error_message) returned
    vpc,                    \* position of the validator's main: "start" | "loop" | "exit"
    architecture_dir_exists,
    controls_dir_exists,
    arch_files,             \* the *.arch.json files of the architecture directory
    control_files,          \* the *.requirement.json files, in the order glob yields them
    urls,                   \* the sorted URLs extracted
    url_index,              \* position of the loop over urls (the next one to validate)
    errors,
    warnings,
    exit_code,              \* the status main exits with (None while it runs)
    gpc,                    \* position of generate_control_files: "start" | "done"
    output_dir,             \* the files of output_dir: (name, file), in creation order
    req_index               \* position of the loop over resolved_requirements

resolveVars == <<pc, policy, resolved_requirements>>
applyVars == <<apc, base_control, control_mod, assessment_mods, resolved, records>>
urlVars == <<upc, url_ids, gemara_url>>
fileVars == <<fpc, control_file, expected_url, result>>
mainInputs == <<architecture_dir_exists, controls_dir_exists, arch_files, control_files>>
mainVars == <<vpc, mainInputs, urls, url_index, errors, warnings, exit_code>>
generateVars == <<gpc, output_dir, req_index>>
vars == <<resolveVars, applyVars, urlVars, fileVars, mainVars, generateVars>>

(***************************************************************************)
(* Python values                                                           *)
(***************************************************************************)
\* None: a value different from every str of the model.
None == <<"<None>">>

\* {} (the dict without keys).
EmptyDict == [k \in {} |-> None]

\* "" (the empty str) and [] (the empty list).
Empty == <<>>

\* bool(v) for v a str, a list or None.
Truthy(v) == v # None /\ v # Empty

\* d.get(k, default)
Get(d, k, default) == IF k \in DOMAIN d THEN d[k] ELSE default

\* One-token str.
Str(t) == <<t>>

\* s.split('.'): the pieces between the "." tokens, empty pieces kept.
RECURSIVE Split(_)
Split(s) ==
    IF s = <<>> THEN << <<>> >>
    ELSE IF Head(s) = "." THEN << <<>> >> \o Split(Tail(s))
    ELSE LET rest == Split(Tail(s))
         IN  << <<Head(s)>> \o Head(rest) >> \o Tail(rest)

\* parts[-1]
Last(parts) == parts[Len(parts)]

\* Sequences over S of length at most n.
SeqUpTo(S, n) == UNION {[1..k -> S] : k \in 0..n}

(***************************************************************************)
(* PolicyResolver                                                          *)
(***************************************************************************)
\* Mutant: the control id is interpolated where the requirement id belongs.
GemaraUrlRepeatsControl(p_id, c_id, r_id) ==
    <<"gemara://", "policies", "/">> \o p_id \o <<"/", "controls", "/">>
        \o c_id \o <<"/", "requirements", "/">> \o c_id

\* f"gemara://policies/{policy_id}/controls/{control_id}/requirements/{requirement_id}"
GemaraUrl(policy_id, control_id, requirement_id) ==
    <<"gemara://", "policies", "/">> \o policy_id \o <<"/", "controls", "/">>
        \o control_id \o <<"/", "requirements", "/">> \o requirement_id

\* f"gemara://controls/{catalog_id}/{control_id}/requirements/{requirement_id}"
BaseRequirementUrl(catalog_id, control_id, requirement_id) ==
    <<"gemara://", "controls", "/">> \o catalog_id \o <<"/">>
        \o control_id \o <<"/", "requirements", "/">> \o requirement_id

\* The placeholder catalogue: one requirement, <control_id>.TR01.
_get_base_control(catalog_id, control_id) ==
    ("id" :> control_id)
    @@ ("catalog-id" :> catalog_id)
    @@ ("title" :> (Str("Base Control ") \o control_id))
    @@ ("objective" :> (Str("Base control objective for ") \o control_id))
    @@ ("assessment-requirements" :>
          << ("id" :> (control_id \o <<".", "TR01">>))
             @@ ("text" :> Str("Base assessment requirement text"))
             @@ ("applicability" :> <<Str("default")>>) >>)

\* next((am for am in assessment_mods if am.get("target-id") == req_id), None),
\* as the position of that modification in the list; 0 stands for None.
FirstMod(mods, req_id) ==
    LET hits == {i \in 1..Len(mods) : Get(mods[i], "target-id", None) = req_id}
    IN  IF hits = {} THEN 0 ELSE CHOOSE i \in hits : \A j \in hits : i <= j

\* The body of the loop over the base requirements (lines 123-141).
MergeBaseRequirement(base_req, mods) ==
    LET req_id == base_req["id"]
        found == FirstMod(mods, req_id)
        mod == mods[found]
    IN  IF found # 0 /\ DOMAIN mod # {}
        THEN ("id" :> Get(mod, "target-id", req_id))
             @@ ("text" :> Get(mod, "text", base_req["text"]))
             @@ ("applicability" :>
                   Get(mod, "applicability", Get(base_req, "applicability", Empty)))
        ELSE base_req

\* any(req["id"] == target for req in resolved_reqs)
HasRequirement(resolved_reqs, target) ==
    \E i \in 1..Len(resolved_reqs) : resolved_reqs[i]["id"] = target

\* Mutant: the membership test looks at the requirements present before the
\* loop only, so a target named twice is added twice.
AddNewRequirementsNoRecheck(resolved_reqs, mods) ==
    LET new == SelectSeq(mods, LAMBDA m :
                   ~\E i \in 1..Len(resolved_reqs) :
                       resolved_reqs[i]["id"] = Get(m, "target-id", None))
    IN  resolved_reqs \o
        [i \in 1..Len(new) |->
            ("id" :> Get(new[i], "target-id", None))
            @@ ("text" :> Get(new[i], "text", Empty))
            @@ ("applicability" :> Get(new[i], "applicability", Empty))]

\* Mutant: a new requirement is put in front of the list instead of at its end.
RECURSIVE AddNewRequirementsInFront(_, _)
AddNewRequirementsInFront(resolved_reqs, mods) ==
    IF mods = <<>> THEN resolved_reqs
    ELSE LET mod == Head(mods)
             target == Get(mod, "target-id", None)
         IN  IF ~\E i \in 1..Len(resolved_reqs) : resolved_reqs[i]["id"] = target
             THEN AddNewRequirementsInFront(
                      << ("id" :> target)
                         @@ ("text" :> Get(mod, "text", Empty))
                         @@ ("applicability" :> Get(mod, "applicability", Empty)) >>
                      \o resolved_reqs,
                      Tail(mods))
             ELSE AddNewRequirementsInFront(resolved_reqs, Tail(mods))

\* The loop that adds the new requirements (lines 144-150).
RECURSIVE AddNewRequirements(_, _)
AddNewRequirements(resolved_reqs, mods) ==
    IF mods = <<>> THEN resolved_reqs
    ELSE LET mod == Head(mods)
             target == Get(mod, "target-id", None)
         IN  IF ~HasRequirement(resolved_reqs, target)
             THEN AddNewRequirements(
                      Append(resolved_reqs,
                             ("id" :> target)
                             @@ ("text" :> Get(mod, "text", Empty))
                             @@ ("applicability" :> Get(mod, "applicability", Empty))),
                      Tail(mods))
             ELSE AddNewRequirements(resolved_reqs, Tail(mods))

\* Mutant: the override is applied whenever its key is present, empty or not.
OverrideFieldIfPresent(d, mod, k) ==
    IF k \in DOMAIN mod THEN (k :> mod[k]) @@ d ELSE d

\* The control-level overrides (lines 111-117): a key of the copy is replaced
\* when the override is truthy.
OverrideField(d, mod, k) ==
    IF Truthy(Get(mod, k, None)) THEN (k :> mod[k]) @@ d ELSE d

\* The assessment-requirement list of the resolved control (lines 119-150).
ResolvedReqs(base, mods) ==
    LET base_reqs == Get(base, "assessment-requirements", Empty)
        merged == [i \in 1..Len(base_reqs) |-> MergeBaseRequirement(base_reqs[i], mods)]
    IN  AddNewRequirements(merged, mods)

_apply_modifications(base, cmod, mods) ==
    ("assessment-requirements" :> ResolvedReqs(base, mods))
    @@ OverrideField(OverrideField(base, cmod, "title"), cmod, "objective")

\* is_modified = any(am.get("target-id") == requirement_id for am in assessment_mods)
IsModified(mods, requirement_id) ==
    \E i \in 1..Len(mods) : Get(mods[i], "target-id", None) = requirement_id

\* Mutant: the first piece of the split id is used instead of the last.
BaseRequirementIdFirstPiece(control_id, requirement_id, is_modified) ==
    IF is_modified
    THEN control_id \o <<".">> \o Head(Split(requirement_id))
    ELSE requirement_id

\* f"{control_id}.{requirement_id.split('.')[-1]}" if is_modified else requirement_id
BaseRequirementId(control_id, requirement_id, is_modified) ==
    IF is_modified
    THEN control_id \o <<".">> \o Last(Split(requirement_id))
    ELSE requirement_id

\* One record of the output (lines 69-82).
ResolvedRequirement(policy_id, catalog_id, control_id, base, rc, mods, req) ==
    LET requirement_id == req["id"]
        is_modified == IsModified(mods, requirement_id)
    IN  ("requirement-id" :> requirement_id)
        @@ ("control-id" :> control_id)
        @@ ("catalog-id" :> catalog_id)
        @@ ("policy-id" :> policy_id)
        @@ ("text" :> req["text"])
        @@ ("applicability" :> Get(req, "applicability", Empty))
        @@ ("is-modified" :> is_modified)
        @@ ("base-requirement-id" :>
              BaseRequirementId(control_id, requirement_id, is_modified))
        @@ ("gemara-url" :> GemaraUrl(policy_id, control_id, requirement_id))
        @@ ("base-requirement-url" :>
              BaseRequirementUrl(catalog_id, control_id, requirement_id))
        @@ ("control-title" :> Get(rc, "title", Get(base, "title", control_id)))
        @@ ("control-objective" :> Get(rc, "objective", Get(base, "objective", Empty)))

\* The loop over the requirements of one resolved control (lines 60-82): the
\* records it appends, in order.
ControlRecords(policy_id, catalog_id, control_id, base, rc, mods) ==
    LET reqs == Get(rc, "assessment-requirements", Empty)
    IN  [i \in 1..Len(reqs) |->
            ResolvedRequirement(policy_id, catalog_id, control_id, base, rc, mods, reqs[i])]

\* The body of the loop over the control modifications (lines 46-82): the
\* records one control modification contributes.
ResolveControl(policy_id, catalog_id, cmod, mods) ==
    LET control_id == Get(cmod, "target-id", None)
        base == _get_base_control(catalog_id, control_id)
        rc == _apply_modifications(base, cmod, mods)
    IN  ControlRecords(policy_id, catalog_id, control_id, base, rc, mods)

RECURSIVE ResolveControls(_, _, _, _)
ResolveControls(policy_id, catalog_id, cmods, mods) ==
    IF cmods = <<>> THEN <<>>
    ELSE ResolveControl(policy_id, catalog_id, Head(cmods), mods)
         \o ResolveControls(policy_id, catalog_id, Tail(cmods), mods)

\* The body of the loop over the control references (lines 40-82).
ResolveControlRef(policy_id, control_ref) ==
    ResolveControls(policy_id,
                    Get(control_ref, "reference-id", None),
                    Get(control_ref, "control-modifications", Empty),
                    Get(control_ref, "assessment-requirement-modifications", Empty))

RECURSIVE ResolveControlRefs(_, _)
ResolveControlRefs(policy_id, control_refs) ==
    IF control_refs = <<>> THEN <<>>
    ELSE ResolveControlRef(policy_id, Head(control_refs))
         \o ResolveControlRefs(policy_id, Tail(control_refs))

resolve_assessment_requirements(p) ==
    ResolveControlRefs(p["metadata"]["id"], Get(p, "control-references", Empty))

(***************************************************************************)
(* Inputs                                                                  *)
(***************************************************************************)
MaxControlMods == 2
MaxAssessmentMods == 2
MaxBaseReqs == 2

PolicyIds == {Str("p1")}
CatalogIds == {Str("FINOS-CCC")}
C01 == <<"CCC", ".", "C01">>
C02 == <<"CCC", ".", "C02">>
ControlIds == {C01, C02}

\* Targets of assessment modifications: the base requirement of C01, a
\* requirement no base control has, and an id without any ".".
TargetIds == {C01 \o <<".", "TR01">>, C01 \o <<".", "TR02">>, Str("NEW")}

\* The optional keys of a control modification: absent, empty, non-empty.
ControlOverrides ==
    { EmptyDict,
      ("title" :> Empty) @@ ("objective" :> Str("Enhanced objective")),
      ("title" :> Str("Enhanced Encryption")) @@ ("objective" :> Empty),
      ("title" :> Str("Enhanced Encryption")) @@ ("objective" :> Str("Enhanced objective")) }

ControlMods ==
    { ("target-id" :> c) @@ o : c \in ControlIds, o \in ControlOverrides }

\* The optional keys of an assessment modification: absent, empty, non-empty.
AssessmentOverrides ==
    { EmptyDict,
      ("text" :> Empty) @@ ("applicability" :> Empty),
      ("text" :> Str("MUST use TLS 1.3")),
      ("applicability" :> <<Str("prod")>>) }

AssessmentMods ==
    { ("target-id" :> t) @@ o : t \in TargetIds, o \in AssessmentOverrides }

\* The ids of a list of dicts are pairwise different.
DistinctBy(seq, k) ==
    \A i, j \in 1..Len(seq) : seq[i][k] = seq[j][k] => i = j

\* A control reference modifies a control once; its assessment modifications
\* are any list, repeated targets included.
ControlRefs ==
    { ("reference-id" :> cat)
      @@ ("control-modifications" :> cms)
      @@ ("assessment-requirement-modifications" :> ams) :
        cat \in CatalogIds,
        cms \in {l \in SeqUpTo(ControlMods, MaxControlMods) : DistinctBy(l, "target-id")},
        ams \in SeqUpTo(AssessmentMods, MaxAssessmentMods) }

\* A policy holds no control reference or one: every claim checked here is
\* about one control reference, and a second one squares the state space.
Policies ==
    { ("metadata" :> ("id" :> p)) @@ ("control-references" :> refs) :
        p \in PolicyIds, refs \in {<<>>} \cup {<<r>> : r \in ControlRefs} }

\* Base controls a catalogue can hold: like the placeholder's, with any list
\* of requirements whose ids are pairwise different (an id names one
\* requirement of the control); "applicability" is optional (line 137).
BaseReqIds == {C01 \o <<".", "TR01">>, C01 \o <<".", "TR02">>, C01 \o <<".", "TR03">>}

BaseReqs ==
    { ("id" :> i) @@ ("text" :> (Str("Base text of ") \o i)) @@ o :
        i \in BaseReqIds, o \in {EmptyDict, "applicability" :> <<Str("default")>>} }

BaseControls ==
    { ("assessment-requirements" :> reqs) @@ _get_base_control(cat, C01) :
        cat \in CatalogIds,
        reqs \in {l \in SeqUpTo(BaseReqs, MaxBaseReqs) : DistinctBy(l, "id")} }
      \cup { _get_base_control(cat, C01) : cat \in CatalogIds }

(***************************************************************************)
(* Spec: one run of resolve_assessment_requirements over any policy.       *)
(***************************************************************************)
ApplyIdle ==
    /\ apc = "idle"
    /\ base_control = None
    /\ control_mod = None
    /\ assessment_mods = None
    /\ resolved = None
    /\ records = None

UrlIdle ==
    /\ upc = "idle"
    /\ url_ids = None
    /\ gemara_url = None

FileIdle ==
    /\ fpc = "idle"
    /\ control_file = None
    /\ expected_url = None
    /\ result = None

GenerateIdle ==
    /\ gpc = "idle"
    /\ output_dir = <<>>
    /\ req_index = 0

MainIdle ==
    /\ vpc = "idle"
    /\ architecture_dir_exists = FALSE
    /\ controls_dir_exists = FALSE
    /\ arch_files = <<>>
    /\ control_files = <<>>
    /\ urls = <<>>
    /\ url_index = 0
    /\ errors = <<>>
    /\ warnings = <<>>
    /\ exit_code = None

Init ==
    /\ pc = "start"
    /\ policy \in Policies
    /\ resolved_requirements = <<>>
    /\ ApplyIdle
    /\ UrlIdle
    /\ FileIdle
    /\ MainIdle
    /\ GenerateIdle

Resolve ==
    /\ pc = "start"
    /\ resolved_requirements' = resolve_assessment_requirements(policy)
    /\ pc' = "done"
    /\ UNCHANGED <<policy, applyVars, urlVars, fileVars, mainVars, generateVars>>

Next == Resolve

Spec == Init /\ [][Next]_vars

(***************************************************************************)
(* SpecApply: one pass of the loop over the control modifications (lines   *)
(* 46-82), for any base control the catalogue may return.                  *)
(***************************************************************************)
ResolveIdle ==
    /\ pc = "idle"
    /\ policy = None
    /\ resolved_requirements = None

InitApply ==
    /\ apc = "start"
    /\ base_control \in BaseControls
    /\ control_mod \in {m \in ControlMods : m["target-id"] = C01}
    /\ assessment_mods \in SeqUpTo(AssessmentMods, MaxAssessmentMods)
    /\ resolved = None
    /\ records = None
    /\ ResolveIdle
    /\ UrlIdle
    /\ FileIdle
    /\ MainIdle
    /\ GenerateIdle

Apply ==
    /\ apc = "start"
    /\ resolved' = _apply_modifications(base_control, control_mod, assessment_mods)
    /\ records' = ControlRecords(Str("p1"), base_control["catalog-id"],
                                 control_mod["target-id"], base_control,
                                 resolved', assessment_mods)
    /\ apc' = "done"
    /\ UNCHANGED <<base_control, control_mod, assessment_mods, resolveVars, urlVars, fileVars, mainVars, generateVars>>

NextApply == Apply

SpecApply == InitApply /\ [][NextApply]_vars

(***************************************************************************)
(* SpecUrl: the canonical URL of line 78, built from any three ids.  An id *)
(* is any text: the policy id is a command-line argument (line 283) and    *)
(* the other two are target ids of the policy (lines 47, 147).             *)
(***************************************************************************)
MaxIdPieces == 2

\* An id is made of one to MaxIdPieces of these pieces of text.
IdPieces == { <<"a">>, <<"/">>, <<"/", "controls", "/">> }

RECURSIVE Concat(_)
Concat(pieces) == IF pieces = <<>> THEN <<>> ELSE Head(pieces) \o Concat(Tail(pieces))

UrlIdSet == { Concat(ps) : ps \in SeqUpTo(IdPieces, MaxIdPieces) \ {<<>>} }

InitUrl ==
    /\ upc = "start"
    /\ url_ids \in UrlIdSet \X UrlIdSet \X UrlIdSet
    /\ gemara_url = None
    /\ ResolveIdle
    /\ ApplyIdle
    /\ FileIdle
    /\ MainIdle
    /\ GenerateIdle

BuildUrl ==
    /\ upc = "start"
    /\ gemara_url' = GemaraUrl(url_ids[1], url_ids[2], url_ids[3])
    /\ upc' = "done"
    /\ UNCHANGED <<url_ids, resolveVars, applyVars, fileVars, mainVars, generateVars>>

NextUrl == BuildUrl

SpecUrl == InitUrl /\ [][NextUrl]_vars

(***************************************************************************)
(* validate-control-files.py                                               *)
(*                                                                         *)
(* A file of the controls directory is [kind |-> "invalid-json"] (json.load*)
(* raises JSONDecodeError), [kind |-> "unreadable"] (open or read raises)  *)
(* or [kind |-> "json", data |-> v] with v the value parsed.  A parsed     *)
(* value is a dict or NotAnObject, any JSON value that is no object and on *)
(* which .get raises AttributeError.                                       *)
(***************************************************************************)
NotAnObject == ("<not an object>" :> TRUE)

IsObject(v) == "<not an object>" \notin DOMAIN v

\* The error message of validate_control_file: its text and the field it
\* names ("" when it names none).  NoMessage stands for None.
Message(text, field) == [msg |-> text, field |-> field]

NoMessage == Message("", "")

\* Mutant: the Layer 2 branch (lines 93-95) is left out.
ValidateGemaraMetaWithoutLayer2(gemara_meta) ==
    LET layer == Get(gemara_meta, "layer", Empty)
        missing(k) == k \notin DOMAIN gemara_meta
    IN  IF missing("requirement-id")
        THEN <<FALSE, Message("Missing required field", "metadata.gemara.requirement-id")>>
        ELSE IF missing("source")
        THEN <<FALSE, Message("Missing required field", "metadata.gemara.source")>>
        ELSE IF missing("applicability")
        THEN <<FALSE, Message("Missing required field", "metadata.gemara.applicability")>>
        ELSE IF layer = Str("Layer 3") /\ missing("policy-id")
        THEN <<FALSE, Message("Layer 3 requirement missing required field",
                              "metadata.gemara.policy-id")>>
        ELSE IF layer = Str("Layer 3") /\ missing("base-requirement")
        THEN <<FALSE, Message("Layer 3 requirement missing required field",
                              "metadata.gemara.base-requirement")>>
        ELSE <<TRUE, NoMessage>>

\* The checks of metadata.gemara (lines 79-97), gemara_meta being a dict.
ValidateGemaraMeta(gemara_meta) ==
    LET layer == Get(gemara_meta, "layer", Empty)
    IN  IF "requirement-id" \notin DOMAIN gemara_meta
        THEN <<FALSE, Message("Missing required field", "metadata.gemara.requirement-id")>>
        ELSE IF "source" \notin DOMAIN gemara_meta
        THEN <<FALSE, Message("Missing required field", "metadata.gemara.source")>>
        ELSE IF "applicability" \notin DOMAIN gemara_meta
        THEN <<FALSE, Message("Missing required field", "metadata.gemara.applicability")>>
        ELSE IF layer = Str("Layer 3")
        THEN IF "policy-id" \notin DOMAIN gemara_meta
             THEN <<FALSE, Message("Layer 3 requirement missing required field",
                                   "metadata.gemara.policy-id")>>
             ELSE IF "base-requirement" \notin DOMAIN gemara_meta
             THEN <<FALSE, Message("Layer 3 requirement missing required field",
                                   "metadata.gemara.base-requirement")>>
             ELSE <<TRUE, NoMessage>>
        ELSE IF layer = Str("Layer 2")
        THEN IF "catalog-id" \notin DOMAIN gemara_meta
             THEN <<FALSE, Message("Layer 2 requirement missing required field",
                                   "metadata.gemara.catalog-id")>>
             ELSE <<TRUE, NoMessage>>
        ELSE <<TRUE, NoMessage>>

\* The checks of the parsed dict (lines 63-97).  A .get on a value that is no
\* object raises AttributeError, caught at line 101.
ValidateData(data, url) ==
    IF Get(data, "$id", Empty) # url
    THEN <<FALSE, Message("$id mismatch", "")>>
    ELSE IF "control-id" \notin DOMAIN data
    THEN <<FALSE, Message("Missing required field", "control-id")>>
    ELSE IF "metadata" \notin DOMAIN data
    THEN <<FALSE, Message("Missing required field", "metadata")>>
    ELSE IF ~IsObject(data["metadata"])
    THEN <<FALSE, Message("Error reading file", "")>>
    ELSE LET metadata == data["metadata"]
         IN  IF "gemara" \notin DOMAIN metadata \/ metadata["gemara"] = EmptyDict
             THEN <<FALSE, Message("Missing required field", "metadata.gemara")>>
             ELSE IF ~IsObject(metadata["gemara"])
             THEN <<FALSE, Message("Error reading file", "")>>
             ELSE ValidateGemaraMeta(metadata["gemara"])

\* validate_control_file(control_file, expected_url) -> (is_valid, error_message)
validate_control_file(file, url) ==
    IF file.kind = "invalid-json" THEN <<FALSE, Message("Invalid JSON", "")>>
    ELSE IF file.kind = "unreadable" THEN <<FALSE, Message("Error reading file", "")>>
    ELSE IF ~IsObject(file.data) THEN <<FALSE, Message("Error reading file", "")>>
    ELSE ValidateData(file.data, url)

(***************************************************************************)
(* Files of the controls directory                                         *)
(***************************************************************************)
U1 == GemaraUrl(Str("p1"), C01, C01 \o <<".", "TR01">>)
U2 == BaseRequirementUrl(Str("FINOS-CCC"), C01, C01 \o <<".", "TR01">>)
FileUrls == {U1, U2}

Json(v) == [kind |-> "json", data |-> v]
InvalidJson == [kind |-> "invalid-json"]
Unreadable == [kind |-> "unreadable"]

\* A key that is absent, or present with one of `values`.
Optional(k, values) == {EmptyDict} \cup {k :> v : v \in values}

\* Every metadata.gemara object over the keys the validator reads.
GemaraMetas ==
    { l @@ pid @@ [k \in ks |-> Str("v")] :
        l \in Optional("layer", {Str("Layer 3"), Str("Layer 2"), Str("Layer 1")}),
        pid \in Optional("policy-id", {Str("p1"), Str("p2")}),
        ks \in SUBSET {"requirement-id", "source", "applicability",
                        "base-requirement", "catalog-id"} }

Metadatas ==
    {NotAnObject} \cup { g : g \in Optional("gemara", GemaraMetas \cup {NotAnObject}) }

\* Every parsed object over the keys the validator reads.
Datas ==
    { id @@ cid @@ md :
        id \in Optional("$id", FileUrls),
        cid \in Optional("control-id", {Str("v")}),
        md \in Optional("metadata", Metadatas) }

ControlFiles == {InvalidJson, Unreadable, Json(NotAnObject)} \cup {Json(d) : d \in Datas}

(***************************************************************************)
(* SpecFile: validate_control_file on any file and any URL.                *)
(***************************************************************************)
InitFile ==
    /\ fpc = "start"
    /\ control_file \in ControlFiles
    /\ expected_url \in FileUrls
    /\ result = None
    /\ ResolveIdle
    /\ ApplyIdle
    /\ UrlIdle
    /\ MainIdle
    /\ GenerateIdle

ValidateFile ==
    /\ fpc = "start"
    /\ result' = validate_control_file(control_file, expected_url)
    /\ fpc' = "done"
    /\ UNCHANGED <<control_file, expected_url, resolveVars, applyVars, urlVars, mainVars, generateVars>>

NextFile == ValidateFile

SpecFile == InitFile /\ [][NextFile]_vars

(***************************************************************************)
(* extract_gemara_urls, find_control_file and main                         *)
(***************************************************************************)
\* The tokens of the model in the order Python compares the text they stand
\* for (code points); no token is the beginning of another, so comparing
\* token by token is comparing the strings.
TokenOrder ==
    << "\"", ".", "/", "C01", "C02", "CCC", "FINOS-CCC", "NEW", "TR01", "TR02",
       "TR03", "a", "controls", "gemara://", "new", "p1", "p2", "policies",
       "requirements", "x" >>

Rank(t) == CHOOSE i \in 1..Len(TokenOrder) : TokenOrder[i] = t

\* a < b for two str.
RECURSIVE StrLess(_, _)
StrLess(a, b) ==
    IF b = <<>> THEN FALSE
    ELSE IF a = <<>> THEN TRUE
    ELSE IF Head(a) = Head(b) THEN StrLess(Tail(a), Tail(b))
    ELSE Rank(Head(a)) < Rank(Head(b))

\* sorted(S) for a set of str.
RECURSIVE Sorted(_)
Sorted(S) ==
    IF S = {} THEN <<>>
    ELSE LET least == CHOOSE x \in S : \A y \in S : x = y \/ StrLess(x, y)
         IN  <<least>> \o Sorted(S \ {least})

\* The position of the first token of s at or after `from` that is in
\* `stops` (Len(s) + 1 when there is none).
FirstOf(s, from, stops) ==
    LET at == {i \in from..Len(s) : s[i] \in stops}
    IN  IF at = {} THEN Len(s) + 1 ELSE CHOOSE i \in at : \A j \in at : i <= j

\* re.findall(r'gemara://[^"]+', content) from position i on: a match starts
\* at "gemara://" followed by a token that is no quote and runs to the next
\* quote or to the end; the search goes on after the match.
RECURSIVE FindAllFrom(_, _)
FindAllFrom(content, i) ==
    IF i > Len(content) THEN {}
    ELSE IF content[i] = "gemara://" /\ i + 1 <= Len(content) /\ content[i + 1] # "\""
    THEN LET end == FirstOf(content, i + 1, {"\""})
         IN  {SubSeq(content, i, end - 1)} \cup FindAllFrom(content, end)
    ELSE FindAllFrom(content, i + 1)

\* extract_gemara_urls: a file whose read raises is reported and skipped.
extract_gemara_urls(files) ==
    Sorted(UNION {FindAllFrom(files[i].content, 1) :
                    i \in {j \in 1..Len(files) : files[j].kind = "text"}})

\* Mutant: a file that cannot be parsed ends the search with None.
RECURSIVE FindFromStopsAtUnparseable(_, _, _)
FindFromStopsAtUnparseable(url, files, i) ==
    IF i > Len(files) THEN 0
    ELSE IF files[i].kind # "json" \/ ~IsObject(files[i].data) THEN 0
    ELSE IF Get(files[i].data, "$id", Empty) = url THEN i
    ELSE FindFromStopsAtUnparseable(url, files, i + 1)

\* The loop of find_control_file from file i on (lines 37-47): the position
\* of the file returned, 0 for None.  A file that raises is skipped.
RECURSIVE FindFrom(_, _, _)
FindFrom(url, files, i) ==
    IF i > Len(files) THEN 0
    ELSE IF files[i].kind # "json" \/ ~IsObject(files[i].data)
    THEN FindFrom(url, files, i + 1)
    ELSE IF Get(files[i].data, "$id", Empty) = url THEN i
    ELSE FindFrom(url, files, i + 1)

find_control_file(url, files) == FindFrom(url, files, 1)

\* re.match(r'gemara://policies/([^/]+)/controls/', url): group 1, None when
\* the URL does not match.
MatchPolicyId(url) ==
    LET end == FirstOf(url, 4, {"/", "gemara://"})
    IN  IF /\ Len(url) >= 3
           /\ SubSeq(url, 1, 3) = <<"gemara://", "policies", "/">>
           /\ end > 4
           /\ end + 2 <= Len(url)
           /\ SubSeq(url, end, end + 2) = <<"/", "controls", "/">>
        THEN SubSeq(url, 4, end - 1)
        ELSE None

\* An entry of errors: the pieces of f"Missing control file for {url}" and of
\* f"{control_file}: {error_msg}" (file 0 and url "" where the text has none).
MissingError(url) ==
    [file |-> 0, error |-> Message("Missing control file for", ""), url |-> url]

FileError(found, message) == [file |-> found, error |-> message, url |-> <<>>]

\* The policy-id check of a valid file (lines 165-183): the warnings it adds.
PolicyIdWarnings(found, file, url) ==
    IF file.kind # "json" \/ ~IsObject(file.data) THEN <<>>
    ELSE IF ~IsObject(Get(file.data, "metadata", EmptyDict)) THEN <<>>
    ELSE LET gemara_meta == Get(Get(file.data, "metadata", EmptyDict), "gemara", EmptyDict)
         IN  IF ~IsObject(gemara_meta) THEN <<>>
             ELSE IF Get(gemara_meta, "layer", None) = Str("Layer 3")
                     /\ MatchPolicyId(url) # None
                     /\ Get(gemara_meta, "policy-id", Empty) # MatchPolicyId(url)
             THEN << [file |-> found,
                      expected |-> MatchPolicyId(url),
                      found |-> Get(gemara_meta, "policy-id", Empty)] >>
             ELSE <<>>

\* Mutant: a policy-id mismatch is appended to errors instead of warnings.
ValidateOneMismatchIsError(url, files) ==
    LET found == find_control_file(url, files)
    IN  IF found = 0
        THEN [errors |-> <<MissingError(url)>>, warnings |-> <<>>]
        ELSE LET checked == validate_control_file(files[found], url)
             IN  IF ~checked[1]
                 THEN [errors |-> <<FileError(found, checked[2])>>, warnings |-> <<>>]
                 ELSE [errors |->
                          [i \in 1..Len(PolicyIdWarnings(found, files[found], url)) |->
                              FileError(found, Message("Policy ID mismatch", ""))],
                       warnings |-> <<>>]

\* The body of the loop over the URLs (lines 151-185): what it appends to
\* errors and to warnings.
ValidateOne(url, files) ==
    LET found == find_control_file(url, files)
    IN  IF found = 0
        THEN [errors |-> <<MissingError(url)>>, warnings |-> <<>>]
        ELSE LET checked == validate_control_file(files[found], url)
             IN  IF ~checked[1]
                 THEN [errors |-> <<FileError(found, checked[2])>>, warnings |-> <<>>]
                 ELSE [errors |-> <<>>,
                       warnings |-> PolicyIdWarnings(found, files[found], url)]

\* Mutant: warnings make the run fail too.
ExitStatusCountsWarnings(errs, warns) == IF errs # <<>> \/ warns # <<>> THEN 1 ELSE 0

\* The status of lines 192-200.
ExitStatus(errs, warns) == IF errs # <<>> THEN 1 ELSE 0

(***************************************************************************)
(* SpecMain: one run of the validator's main over any two directories.     *)
(***************************************************************************)
MaxArchFiles == 2
MaxControlFiles == 2

Text(tokens) == [kind |-> "text", content |-> tokens]
Quoted(url) == <<"\"">> \o url \o <<"\"">>

\* Architecture files: without any URL, quoting one URL or two, holding a
\* URL that runs on to the end of the file, and one whose read raises.
ArchFiles ==
    { Text(<<"x">>),
      Text(Quoted(U1)),
      Text(Quoted(U2)),
      Text(Quoted(U1) \o <<"x">> \o Quoted(U2)),
      Text(<<"\"">> \o U1 \o <<"x">>),
      Unreadable }

\* A structurally complete Layer 3 metadata.gemara of policy p.
Layer3Meta(p) ==
    ("layer" :> Str("Layer 3")) @@ ("policy-id" :> p)
    @@ [k \in {"requirement-id", "source", "applicability", "base-requirement"} |-> Str("v")]

\* The bodies of the artifacts of a run: complete for policy p1 and for
\* policy p2, Layer 3 without policy-id and base-requirement, and an empty
\* metadata.gemara.
RunMetas ==
    { Layer3Meta(Str("p1")),
      Layer3Meta(Str("p2")),
      ("layer" :> Str("Layer 3"))
        @@ [k \in {"requirement-id", "source", "applicability"} |-> Str("v")],
      EmptyDict }

RunFiles ==
    {InvalidJson}
    \cup { Json(("$id" :> u) @@ ("control-id" :> Str("v")) @@ ("metadata" :> ("gemara" :> g))) :
             u \in FileUrls, g \in RunMetas }

InitMain ==
    /\ vpc = "start"
    /\ architecture_dir_exists \in BOOLEAN
    /\ controls_dir_exists \in BOOLEAN
    /\ arch_files \in IF architecture_dir_exists
                      THEN SeqUpTo(ArchFiles, MaxArchFiles) ELSE {<<>>}
    /\ control_files \in IF controls_dir_exists
                         THEN SeqUpTo(RunFiles, MaxControlFiles) ELSE {<<>>}
    /\ urls = <<>>
    /\ url_index = 0
    /\ errors = <<>>
    /\ warnings = <<>>
    /\ exit_code = None
    /\ ResolveIdle
    /\ ApplyIdle
    /\ UrlIdle
    /\ FileIdle
    /\ GenerateIdle

otherVars == <<resolveVars, applyVars, urlVars, fileVars, generateVars>>

\* Lines 130-136: a directory is missing.
DirectoryMissing ==
    /\ vpc = "start"
    /\ ~architecture_dir_exists \/ ~controls_dir_exists
    /\ exit_code' = 1
    /\ vpc' = "exit"
    /\ UNCHANGED <<mainInputs, urls, url_index, errors, warnings, otherVars>>

\* Lines 141-145: no URL is extracted.
NoReferences ==
    /\ vpc = "start"
    /\ architecture_dir_exists /\ controls_dir_exists
    /\ urls' = extract_gemara_urls(arch_files)
    /\ urls' = <<>>
    /\ exit_code' = 0
    /\ vpc' = "exit"
    /\ UNCHANGED <<mainInputs, url_index, errors, warnings, otherVars>>

\* Lines 141-148: URLs are extracted and the loop is entered.
Extract ==
    /\ vpc = "start"
    /\ architecture_dir_exists /\ controls_dir_exists
    /\ urls' = extract_gemara_urls(arch_files)
    /\ urls' # <<>>
    /\ errors' = <<>>
    /\ warnings' = <<>>
    /\ url_index' = 1
    /\ vpc' = "loop"
    /\ UNCHANGED <<mainInputs, exit_code, otherVars>>

\* Lines 151-185: one pass of the loop.
ValidateUrl ==
    /\ vpc = "loop"
    /\ url_index <= Len(urls)
    /\ LET out == ValidateOne(urls[url_index], control_files)
       IN  /\ errors' = errors \o out.errors
           /\ warnings' = warnings \o out.warnings
    /\ url_index' = url_index + 1
    /\ UNCHANGED <<vpc, mainInputs, urls, exit_code, otherVars>>

\* Lines 187-200: the report and the exit.
Report ==
    /\ vpc = "loop"
    /\ url_index > Len(urls)
    /\ exit_code' = ExitStatus(errors, warnings)
    /\ vpc' = "exit"
    /\ UNCHANGED <<mainInputs, urls, url_index, errors, warnings, otherVars>>

NextMain ==
    \/ DirectoryMissing
    \/ NoReferences
    \/ Extract
    \/ ValidateUrl
    \/ Report

SpecMain == InitMain /\ [][NextMain]_vars

(***************************************************************************)
(* ControlRequirementFileGenerator.generate_control_files                  *)
(***************************************************************************)
\* str.lower() on one token.
Lower(t) ==
    CASE t = "CCC" -> "ccc"
      [] t = "C01" -> "c01"
      [] t = "C02" -> "c02"
      [] t = "TR01" -> "tr01"
      [] t = "TR02" -> "tr02"
      [] t = "TR03" -> "tr03"
      [] t = "NEW" -> "new"
      [] OTHER -> t

\* req["requirement-id"].replace(".", "-").lower() + ".requirement.json"
Filename(requirement_id) ==
    [i \in 1..Len(requirement_id) |->
        Lower(IF requirement_id[i] = "." THEN "-" ELSE requirement_id[i])]
    \o <<".requirement.json">>

\* The control_file dict of lines 171-193, as json.load gives it back from
\* the text json.dumps wrote (str, list and dict values come back equal).
ControlFileOf(req) ==
    LET source ==
            ("type" :> Str("policy"))
            @@ ("policy-id" :> req["policy-id"])
            @@ ("control-id" :> req["control-id"])
        base_requirement ==
            ("reference-url" :> req["base-requirement-url"])
            @@ ("catalog-id" :> req["catalog-id"])
        gemara ==
            ("layer" :> Str("Layer 3"))
            @@ ("policy-id" :> req["policy-id"])
            @@ ("control-id" :> req["control-id"])
            @@ ("requirement-id" :> req["requirement-id"])
            @@ ("source" :> source)
            @@ ("base-requirement" :> base_requirement)
            @@ ("applicability" :> req["applicability"])
        metadata == ("gemara" :> gemara)
    IN  Json(("$schema" :> Str("https://calm.finos.org/release/1.1/meta/control-requirement.json"))
             @@ ("$id" :> req["gemara-url"])
             @@ ("control-id" :> req["requirement-id"])
             @@ ("name" :> req["control-title"] \o <<" - ">> \o req["requirement-id"])
             @@ ("description" :> req["text"])
             @@ ("metadata" :> metadata))

\* filepath.write_text: the file of that name is created, or its content
\* replaced.
WriteText(dir, name, file) ==
    IF \E i \in 1..Len(dir) : dir[i].name = name
    THEN [i \in 1..Len(dir) |->
            IF dir[i].name = name THEN [name |-> name, file |-> file] ELSE dir[i]]
    ELSE Append(dir, [name |-> name, file |-> file])

\* The orders in which glob can yield the files of a directory.
Listings(dir) ==
    { [i \in 1..Len(dir) |-> dir[order[i]].file] :
        order \in {f \in [1..Len(dir) -> 1..Len(dir)] :
                     \A i, j \in 1..Len(dir) : f[i] = f[j] => i = j} }

\* The text of an architecture that references the gemara-url of every
\* record.
RECURSIVE ReferencesTo(_)
ReferencesTo(reqs) ==
    IF reqs = <<>> THEN <<"x">>
    ELSE Quoted(Head(reqs)["gemara-url"]) \o ReferencesTo(Tail(reqs))

(***************************************************************************)
(* SpecGenerate: a policy is resolved, the files of the output are         *)
(* generated into an empty directory, and the validator is run over an     *)
(* architecture that references every gemara-url of the output.            *)
(***************************************************************************)
\* Targets of assessment modifications: a base requirement of CCC.C01 and
\* two new requirements whose ids differ in case.
GenerateTargetIds == {C01 \o <<".", "TR01">>, Str("NEW"), Str("new")}

GenerateControlRefs ==
    { ("reference-id" :> cat)
      @@ ("control-modifications" :> cms)
      @@ ("assessment-requirement-modifications" :> ams) :
        cat \in CatalogIds,
        cms \in {l \in SeqUpTo({("target-id" :> c) : c \in ControlIds}, MaxControlMods) :
                   DistinctBy(l, "target-id")},
        ams \in SeqUpTo({("target-id" :> t) : t \in GenerateTargetIds}, MaxAssessmentMods) }

GeneratePolicies ==
    { ("metadata" :> ("id" :> p)) @@ ("control-references" :> refs) :
        p \in PolicyIds, refs \in {<<>>} \cup {<<r>> : r \in GenerateControlRefs} }

InitGenerate ==
    /\ pc = "start"
    /\ policy \in GeneratePolicies
    /\ resolved_requirements = <<>>
    /\ gpc = "start"
    /\ output_dir = <<>>
    /\ req_index = 1
    /\ ApplyIdle
    /\ UrlIdle
    /\ FileIdle
    /\ MainIdle

\* One pass of the loop of lines 169-201.
GenerateFile ==
    /\ pc = "done"
    /\ gpc = "start"
    /\ req_index <= Len(resolved_requirements)
    /\ LET req == resolved_requirements[req_index]
       IN  output_dir' = WriteText(output_dir, Filename(req["requirement-id"]),
                                   ControlFileOf(req))
    /\ req_index' = req_index + 1
    /\ UNCHANGED <<gpc, resolveVars, applyVars, urlVars, fileVars, mainVars>>

\* The loop is over.
GenerateDone ==
    /\ pc = "done"
    /\ gpc = "start"
    /\ req_index > Len(resolved_requirements)
    /\ gpc' = "done"
    /\ UNCHANGED <<output_dir, req_index, resolveVars, applyVars, urlVars, fileVars, mainVars>>

\* The validator is started on output_dir and on an architecture directory
\* of one file referencing every gemara-url.
StartValidation ==
    /\ gpc = "done"
    /\ vpc = "idle"
    /\ architecture_dir_exists' = TRUE
    /\ controls_dir_exists' = TRUE
    /\ arch_files' = <<Text(ReferencesTo(resolved_requirements))>>
    /\ control_files' \in Listings(output_dir)
    /\ vpc' = "start"
    /\ UNCHANGED <<urls, url_index, errors, warnings, exit_code, otherVars>>

NextGenerate ==
    \/ Resolve
    \/ GenerateFile
    \/ GenerateDone
    \/ StartValidation
    \/ NoReferences
    \/ Extract
    \/ ValidateUrl
    \/ Report

SpecGenerate == InitGenerate /\ [][NextGenerate]_vars

(***************************************************************************)
(* Claims about the resolver                                               *)
(***************************************************************************)
\* The control references of the policy being resolved.
Refs == Get(policy, "control-references", Empty)

\* The positions of the output that carry requirement id `rid`.
Carrying(rid) ==
    {j \in 1..Len(resolved_requirements) :
        resolved_requirements[j]["requirement-id"] = rid}

\* The first modification of `mods` that targets `rid` (one exists).
FirstTargeting(mods, rid) ==
    mods[CHOOSE i \in 1..Len(mods) :
            /\ mods[i]["target-id"] = rid
            /\ \A j \in 1..(i - 1) : mods[j]["target-id"] # rid]

\* C1: for every assessment modification whose target id is the id of a base
\* requirement of a control the policy modifies, the output of resolve holds
\* exactly one record carrying that id; its text and applicability are the
\* override's when the override carries them and the base requirement's
\* otherwise, and it is marked modified.  (Where several modifications name
\* one target, "the override" is read as the first of them.)
C1_OneRecordPerOverriddenRequirement ==
    pc = "done" =>
        \A r \in 1..Len(Refs) :
            LET ref == Refs[r]
                cmods == ref["control-modifications"]
                mods == ref["assessment-requirement-modifications"]
            IN  \A c \in 1..Len(cmods), m \in 1..Len(mods) :
                    LET base == _get_base_control(ref["reference-id"], cmods[c]["target-id"])
                        breqs == base["assessment-requirements"]
                    IN  \A b \in 1..Len(breqs) :
                            breqs[b]["id"] = mods[m]["target-id"] =>
                                LET rid == breqs[b]["id"]
                                    ov == FirstTargeting(mods, rid)
                                IN  /\ Cardinality(Carrying(rid)) = 1
                                    /\ \A j \in Carrying(rid) :
                                        LET rec == resolved_requirements[j]
                                        IN  /\ rec["text"] = Get(ov, "text", breqs[b]["text"])
                                            /\ rec["applicability"] =
                                                 Get(ov, "applicability", breqs[b]["applicability"])
                                            /\ rec["is-modified"] = TRUE

\* The part of `s` after its last "." (all of `s` when it has none).
AfterLastDot(s) ==
    LET dots == {i \in 1..Len(s) : s[i] = "."}
        last == IF dots = {} THEN 0 ELSE CHOOSE i \in dots : \A j \in dots : j <= i
    IN  SubSeq(s, last + 1, Len(s))

\* The target ids of a list of assessment modifications.
Targets(mods) == {mods[i]["target-id"] : i \in 1..Len(mods)}

\* What C3 says of one record, given the modifications of its control reference.
C3_Record(rec, mods) ==
    /\ rec["is-modified"] = (rec["requirement-id"] \in Targets(mods))
    /\ ~rec["is-modified"] => rec["base-requirement-id"] = rec["requirement-id"]
    /\ rec["is-modified"] =>
         rec["base-requirement-id"] =
            rec["control-id"] \o <<".">> \o AfterLastDot(rec["requirement-id"])

\* C3: a record is marked modified exactly when its requirement id is the
\* target of some assessment modification of its control reference; an
\* unmodified record's base-requirement-id is its requirement id, a modified
\* one's is the control id, ".", and what follows the last "." of its
\* requirement id.
C3_IsModifiedAndBaseRequirementId ==
    pc = "done" =>
        \A j \in 1..Len(resolved_requirements) :
            C3_Record(resolved_requirements[j],
                      Refs[1]["assessment-requirement-modifications"])

\* C3 witness: a run whose output holds an unmodified record, a record marked
\* modified by a modification that overrides nothing, and a modified record
\* whose base-requirement-id differs from its requirement id.
C3_Witness ==
    /\ pc = "done"
    /\ \E j \in 1..Len(resolved_requirements) :
            ~resolved_requirements[j]["is-modified"]
    /\ \E j \in 1..Len(resolved_requirements) :
            LET rec == resolved_requirements[j]
            IN  /\ rec["is-modified"]
                /\ rec["base-requirement-id"] # rec["requirement-id"]
    /\ \E j \in 1..Len(resolved_requirements) :
            LET rec == resolved_requirements[j]
                mods == Refs[1]["assessment-requirement-modifications"]
            IN  /\ rec["is-modified"]
                /\ rec["text"] = Str("Base assessment requirement text")
                /\ \A i \in 1..Len(mods) : DOMAIN mods[i] = {"target-id"}

\* The value C5 expects of a control-level field `k` of control modification cm.
C5_Expected(cm, k, base_value) ==
    IF k \in DOMAIN cm /\ cm[k] # Empty THEN cm[k] ELSE base_value

\* What C5 says of one record made for control modification cm over `base`.
C5_Record(rec, cm, base) ==
    /\ rec["control-title"] = C5_Expected(cm, "title", base["title"])
    /\ rec["control-objective"] = C5_Expected(cm, "objective", base["objective"])

\* C5: the control title and objective of every record are the control
\* modification's override when it is present and non-empty, and the base
\* control's value otherwise.
C5_ControlTitleAndObjective ==
    pc = "done" =>
        \A j \in 1..Len(resolved_requirements) :
            LET rec == resolved_requirements[j]
                ref == Refs[1]
                cmods == ref["control-modifications"]
            IN  \A c \in 1..Len(cmods) :
                    cmods[c]["target-id"] = rec["control-id"] =>
                        C5_Record(rec, cmods[c],
                                  _get_base_control(ref["reference-id"], rec["control-id"]))

\* C5 witness: a run whose output holds a record with an overridden title and,
\* the objective override being the empty string, the base objective, and a
\* record of a control modification with no override at all.
C5_Witness ==
    /\ pc = "done"
    /\ \E j \in 1..Len(resolved_requirements) :
            LET rec == resolved_requirements[j]
            IN  /\ rec["control-title"] = Str("Enhanced Encryption")
                /\ rec["control-objective"] =
                     Str("Base control objective for ") \o rec["control-id"]
    /\ \E j \in 1..Len(resolved_requirements) :
            LET rec == resolved_requirements[j]
            IN  /\ rec["control-title"] = Str("Base Control ") \o rec["control-id"]
                /\ \E c \in 1..Len(Refs[1]["control-modifications"]) :
                      LET cm == Refs[1]["control-modifications"][c]
                      IN  cm["target-id"] = rec["control-id"] /\ "title" \notin DOMAIN cm

\* The requirements of the resolved control and of its base control.
Reqs == resolved["assessment-requirements"]
BaseReqsOf == base_control["assessment-requirements"]

\* C2: within one resolved control no two assessment requirements share an id.
C2_UniqueRequirementIds ==
    apc = "done" =>
        \A i, j \in 1..Len(Reqs) : Reqs[i]["id"] = Reqs[j]["id"] => i = j

\* C2 witness: a resolved control whose modification list names a new target
\* twice and names a base requirement.
C2_Witness ==
    /\ apc = "done"
    /\ Len(BaseReqsOf) >= 2
    /\ \E i, j \in 1..Len(assessment_mods) :
          /\ i < j
          /\ assessment_mods[i]["target-id"] = assessment_mods[j]["target-id"]
          /\ \A b \in 1..Len(BaseReqsOf) :
                BaseReqsOf[b]["id"] # assessment_mods[i]["target-id"]

\* The positions of the modification list whose target is no base requirement.
Unmatched ==
    {i \in 1..Len(assessment_mods) :
        \A b \in 1..Len(BaseReqsOf) : BaseReqsOf[b]["id"] # assessment_mods[i]["target-id"]}

\* Those of them that are the first of the list with their target.
FirstUnmatched ==
    {i \in Unmatched :
        \A j \in 1..(i - 1) : assessment_mods[j]["target-id"] # assessment_mods[i]["target-id"]}

\* The requirement a modification becomes when it is added as a new one.
NewRequirement(mod) ==
    ("id" :> mod["target-id"])
    @@ ("text" :> IF "text" \in DOMAIN mod THEN mod["text"] ELSE <<>>)
    @@ ("applicability" :>
          IF "applicability" \in DOMAIN mod THEN mod["applicability"] ELSE <<>>)

\* The modifications at positions `new` are the requirements after the base
\* ones, in list order, each carrying the override's fields and marked modified.
AppendedAre(new) ==
    LET n == Len(BaseReqsOf)
    IN  /\ Len(Reqs) = n + Cardinality(new)
        /\ \A b \in 1..n : Reqs[b]["id"] = BaseReqsOf[b]["id"]
        /\ \A i \in new :
              LET k == n + Cardinality({j \in new : j <= i})
              IN  /\ Reqs[k] = NewRequirement(assessment_mods[i])
                  /\ records[k]["requirement-id"] = assessment_mods[i]["target-id"]
                  /\ records[k]["text"] = Reqs[k]["text"]
                  /\ records[k]["applicability"] = Reqs[k]["applicability"]
                  /\ records[k]["is-modified"] = TRUE

\* C4 as claimed: every assessment modification whose target id matches no
\* base requirement of the control becomes a new resolved requirement, after
\* the base requirements and in list order, with the override's id, text and
\* applicability (empty when absent) and marked modified.
C4_EveryUnmatchedAppended == apc = "done" => AppendedAre(Unmatched)

\* C4 as amended: every assessment modification whose target id matches no
\* base requirement of the control and no earlier modification of the list
\* becomes such a new resolved requirement; a later modification with the
\* same target adds nothing.
C4_FirstUnmatchedAppended == apc = "done" => AppendedAre(FirstUnmatched)

\* C4 witness: two modifications with different new targets were appended
\* after two base requirements.
C4_Witness ==
    /\ apc = "done"
    /\ Len(BaseReqsOf) = 2
    /\ Cardinality(FirstUnmatched) = 2
    /\ Len(Reqs) = 4

(***************************************************************************)
(* Claims about the canonical URL                                          *)
(***************************************************************************)
\* The text has a "/" in it.
HasSlash(s) == \E i \in 1..Len(s) : s[i] \in {"/", "gemara://"}

\* The position of the first token of s at or after `from` that has a "/"
\* (Len(s) + 1 when there is none).
NextSlash(s, from) ==
    LET at == {i \in from..Len(s) : s[i] \in {"/", "gemara://"}}
    IN  IF at = {} THEN Len(s) + 1 ELSE CHOOSE i \in at : \A j \in at : i <= j

\* s holds the tokens `lit` from position `from` on.
HasAt(s, from, lit) ==
    /\ from + Len(lit) - 1 <= Len(s)
    /\ \A i \in 1..Len(lit) : s[from + i - 1] = lit[i]

\* The URL read by its grammar
\*   gemara://policies/<policyId>/controls/<controlId>/requirements/<requirementId>
\* where <policyId> and <controlId> end at the next "/" and <requirementId>
\* is the rest; <<>> when the URL does not follow the grammar.
ParseCanonicalUrl(url) ==
    LET p0 == 4
        p1 == NextSlash(url, p0)
        c0 == p1 + 3
        c1 == NextSlash(url, c0)
        r0 == c1 + 3
    IN  IF /\ HasAt(url, 1, <<"gemara://", "policies", "/">>)
           /\ HasAt(url, p1, <<"/", "controls", "/">>)
           /\ HasAt(url, c1, <<"/", "requirements", "/">>)
        THEN << SubSeq(url, p0, p1 - 1), SubSeq(url, c0, c1 - 1), SubSeq(url, r0, Len(url)) >>
        ELSE <<>>

\* No other triple of `ids` gives the URL built, and the URL parses back.
InjectiveOver(ids) ==
    /\ \A t \in ids : GemaraUrl(t[1], t[2], t[3]) = gemara_url => t = url_ids
    /\ ParseCanonicalUrl(gemara_url) = url_ids

\* C6 as claimed: two different (policyId, controlId, requirementId) triples
\* never give the same canonical URL, and a canonical URL parsed by its
\* grammar gives back the triple it was built from.
C6_CanonicalUrlInjective ==
    upc = "done" => InjectiveOver(UrlIdSet \X UrlIdSet \X UrlIdSet)

\* The ids without any "/".
PlainIds == {i \in UrlIdSet : ~HasSlash(i)}

\* C6 as amended: over the triples whose policy id and control id hold no
\* "/", two different triples never give the same canonical URL, and a
\* canonical URL parsed by its grammar gives back the triple it was built from.
C6_CanonicalUrlInjectiveWithoutSlash ==
    (upc = "done" /\ ~HasSlash(url_ids[1]) /\ ~HasSlash(url_ids[2])) =>
        InjectiveOver(PlainIds \X PlainIds \X UrlIdSet)

\* C6 witness: a URL was built from slash-free policy and control ids and a
\* requirement id that holds "/controls/".
C6_Witness ==
    /\ upc = "done"
    /\ url_ids[1] = <<"a">>
    /\ url_ids[2] = <<"a", "a">>
    /\ url_ids[3] = <<"/", "controls", "/", "a">>
    /\ ParseCanonicalUrl(gemara_url) = url_ids

(***************************************************************************)
(* Claims about validate_control_file                                      *)
(***************************************************************************)
\* The artifact `data` has a metadata object with a gemara member.
HasGemara(data) ==
    /\ "metadata" \in DOMAIN data
    /\ IsObject(data["metadata"])
    /\ "gemara" \in DOMAIN data["metadata"]

\* The artifact has member k in its metadata.gemara object.
HasGemaraField(data, k) ==
    /\ HasGemara(data)
    /\ IsObject(data["metadata"]["gemara"])
    /\ k \in DOMAIN data["metadata"]["gemara"]

\* The layer the artifact declares.
DeclaredLayer(data) ==
    IF HasGemaraField(data, "layer") THEN data["metadata"]["gemara"]["layer"] ELSE <<>>

\* The conditions C9 gives for structural validation to succeed.
C9_Conditions(data, url) ==
    /\ "$id" \in DOMAIN data /\ data["$id"] = url
    /\ "control-id" \in DOMAIN data
    /\ "metadata" \in DOMAIN data
    /\ HasGemara(data)
    /\ \A k \in {"requirement-id", "source", "applicability"} : HasGemaraField(data, k)
    /\ DeclaredLayer(data) = <<"Layer 3">> =>
          HasGemaraField(data, "policy-id") /\ HasGemaraField(data, "base-requirement")
    /\ DeclaredLayer(data) = <<"Layer 2">> => HasGemaraField(data, "catalog-id")

\* `field`, as an error message names it, is a field the artifact lacks.
IsMissing(data, field) ==
    CASE field = "control-id" -> "control-id" \notin DOMAIN data
      [] field = "metadata" -> "metadata" \notin DOMAIN data
      [] field = "metadata.gemara" -> ~HasGemara(data)
      [] field = "metadata.gemara.requirement-id" -> ~HasGemaraField(data, "requirement-id")
      [] field = "metadata.gemara.source" -> ~HasGemaraField(data, "source")
      [] field = "metadata.gemara.applicability" -> ~HasGemaraField(data, "applicability")
      [] field = "metadata.gemara.policy-id" -> ~HasGemaraField(data, "policy-id")
      [] field = "metadata.gemara.base-requirement" -> ~HasGemaraField(data, "base-requirement")
      [] field = "metadata.gemara.catalog-id" -> ~HasGemaraField(data, "catalog-id")
      [] OTHER -> FALSE

\* The call was made on an artifact: a file parsed to a JSON object.
ArtifactValidated ==
    fpc = "done" /\ control_file.kind = "json" /\ IsObject(control_file.data)

\* The artifact is one find_control_file locates for the URL.
Located == Get(control_file.data, "$id", Empty) = expected_url

WellTyped(data) ==
    /\ "metadata" \in DOMAIN data => IsObject(data["metadata"])
    /\ HasGemara(data) => IsObject(data["metadata"]["gemara"])

\* metadata.gemara is present and is the empty object.
EmptyGemara(data) == HasGemara(data) /\ data["metadata"]["gemara"] = EmptyDict

Extracted == vpc \in {"loop", "exit"} /\ architecture_dir_exists /\ controls_dir_exists

\* The positions of urls the loop has been through.
Processed == IF vpc \in {"loop", "exit"} THEN 1..(url_index - 1) ELSE {}

\* The entries of the directory that parse to an object whose identity is u.
ArtifactsOf(u) ==
    {i \in 1..Len(control_files) :
        /\ control_files[i].kind = "json"
        /\ IsObject(control_files[i].data)
        /\ "$id" \in DOMAIN control_files[i].data
        /\ control_files[i].data["$id"] = u}

LocatedAt(u) == CHOOSE i \in ArtifactsOf(u) : \A j \in ArtifactsOf(u) : i <= j

\* The artifact lacks a field required for the layer it declares.
LacksRequiredField(data) == ~C9_Conditions(data, data["$id"])

\* The policy id of a Layer 3 artifact differs from the one in the URL.
PolicyIdMismatch(u, data) ==
    /\ DeclaredLayer(data) = Str("Layer 3")
    /\ ParseCanonicalUrl(u) # <<>>
    /\ data["metadata"]["gemara"]["policy-id"] # ParseCanonicalUrl(u)[1]

MissingErrorsFor(u) ==
    {k \in 1..Len(errors) : errors[k].file = 0 /\ errors[k].url = u}

ErrorsAbout(i) == {k \in 1..Len(errors) : errors[k].file = i}

WarningsAbout(i) == {k \in 1..Len(warnings) : warnings[k].file = i}

C7_Diagnostics(u) ==
    IF ArtifactsOf(u) = {}
    THEN /\ Cardinality(MissingErrorsFor(u)) = 1
    ELSE LET i == LocatedAt(u)
             data == control_files[i].data
         IN  /\ MissingErrorsFor(u) = {}
             /\ IF LacksRequiredField(data)
                THEN Cardinality(ErrorsAbout(i)) = 1 /\ WarningsAbout(i) = {}
                ELSE /\ ErrorsAbout(i) = {}
                     /\ Cardinality(WarningsAbout(i))
                          = IF PolicyIdMismatch(u, data) THEN 1 ELSE 0

\* The URLs gone through that end in an error, and in a warning.
InError ==
    {n \in Processed :
        \/ ArtifactsOf(urls[n]) = {}
        \/ LacksRequiredField(control_files[LocatedAt(urls[n])].data)}

InWarning ==
    {n \in Processed \ InError :
        PolicyIdMismatch(urls[n], control_files[LocatedAt(urls[n])].data)}

\* C7: a run records exactly one error for each URL without an artifact and
\* for each located artifact lacking a field its layer requires, exactly one
\* warning and no error for a located Layer 3 artifact whose policy id
\* differs from the URL's, nothing else, and it goes through every URL
\* whatever errors it has recorded.
C7_OneDiagnosticPerUrl ==
    Extracted =>
        /\ \A n \in Processed : C7_Diagnostics(urls[n])
        /\ Len(errors) = Cardinality(InError)
        /\ Len(warnings) = Cardinality(InWarning)
        /\ (vpc = "exit" /\ errors # <<>>) => url_index = Len(urls) + 1

\* A finished run over three URLs: the first in error for an artifact
\* lacking fields, the second in a warning, the third in error for want of
\* an artifact.
C7_Witness ==
    /\ vpc = "exit"
    /\ Len(urls) = 3
    /\ InError = {1, 3}
    /\ InWarning = {2}
    /\ \E n \in InError : ArtifactsOf(urls[n]) = {}
    /\ \E n \in InError : ArtifactsOf(urls[n]) # {}
    /\ Len(errors) = 2
    /\ Len(warnings) = 1

\* C8: a run that extracts no URL exits with 0 and no diagnostic whatever
\* the controls directory holds; a run that extracts some exits with 1
\* exactly when it recorded an error and with 0 exactly when it recorded
\* none, whatever the number of warnings.
C8_Outcome ==
    (Extracted /\ vpc = "exit") =>
        IF urls = <<>>
        THEN exit_code = 0 /\ errors = <<>> /\ warnings = <<>>
        ELSE /\ exit_code = 1 <=> errors # <<>>
             /\ exit_code = 0 <=> errors = <<>>

\* A run over URLs that ends valid although it recorded a warning.
C8_Witness ==
    /\ Extracted
    /\ vpc = "exit"
    /\ urls # <<>>
    /\ exit_code = 0
    /\ errors = <<>>
    /\ warnings # <<>>

\* The file cannot be parsed into an object.
Unparseable(file) == file.kind # "json" \/ ~IsObject(file.data)

\* C10: an entry of the directory that cannot be parsed is passed over: the
\* lookup of a URL yields the first parseable entry with that identity if
\* there is one, wherever the unparseable entries stand, and a run records
\* "Missing control file" for a URL exactly when there is none.
C10_UnparseableSkipped ==
    /\ \A u \in FileUrls :
          find_control_file(u, control_files)
            = IF ArtifactsOf(u) = {} THEN 0 ELSE LocatedAt(u)
    /\ Extracted =>
          \A n \in Processed : (MissingErrorsFor(urls[n]) # {}) <=> (ArtifactsOf(urls[n]) = {})

\* A run over a directory whose first entry cannot be parsed and whose
\* second is the artifact of one of two URLs: that URL is located, the other
\* one is reported missing.
C10_Witness ==
    /\ vpc = "exit"
    /\ Len(control_files) = 2
    /\ Unparseable(control_files[1])
    /\ Len(urls) = 2
    /\ \E n \in Processed : ArtifactsOf(urls[n]) = {2} /\ MissingErrorsFor(urls[n]) = {}
    /\ \E n \in Processed : ArtifactsOf(urls[n]) = {} /\ MissingErrorsFor(urls[n]) # {}


(***************************************************************************)
(* Claims about the generated files                                        *)
(***************************************************************************)
\* Every file has been written.
Generated == gpc = "done"

\* The files of output_dir whose identity is url.
StoredWith(url) ==
    {i \in 1..Len(output_dir) : output_dir[i].file.data["$id"] = url}

\* C11: once generate_control_files has written the files of a resolve
\* output into an empty directory, every record of the output has a file
\* whose identity is its gemara-url, and a validator run over references to
\* all those URLs records no "Missing control file" error.
C11_EveryRequirementKeepsItsFile ==
    Generated =>
        /\ \A n \in 1..Len(resolved_requirements) :
              StoredWith(resolved_requirements[n]["gemara-url"]) # {}
        /\ Extracted =>
              \A n \in 1..Len(resolved_requirements) :
                  MissingErrorsFor(resolved_requirements[n]["gemara-url"]) = {}

============================================================================
